---------------------------- MODULE Spec2Model ----------------------------
(***************************************************************************)
(* A model of src/src/utils/excelProcessor.js: the row-to-graph builder    *)
(* (processExcelData), the SankeyChart component state (data, selectedKey, *)
(* allKeys, keyPaths, dimensions), its effects, the column layout          *)
(* (customNodePositioning) and the click handlers bound by the render      *)
(* effect.                                                                 *)
(*                                                                         *)
(* JavaScript strings are modelled as sequences of one-character strings,  *)
(* so that concatenation, the regular expression of the layout and the     *)
(* default sort order are computed, not assumed.  A Set or a Map is a      *)
(* sequence without repetition, in insertion order.  A missing field, the  *)
(* empty string and null are all falsy and are all the empty sequence; no  *)
(* key, source or destination that passes line 25 is empty.                *)
(***************************************************************************)
EXTENDS Integers, Sequences, FiniteSets, TLC

VARIABLES
    rawData,      \* the rows handed to the forEach of line 20
    idx,          \* position of the forEach of line 20 in rawData
    nodes,        \* accumulator `nodes` (line 15), insertion order
    links,        \* accumulator `links` (line 16), insertion order
    keyFlows,     \* accumulator `keyFlows` (line 17), insertion order
    propData,     \* the `data` prop of the component (line 80)
    data,         \* useState data (line 81)
    selectedKey,  \* useState selectedKey (line 82)
    allKeys,      \* useState allKeys (line 83)
    keyPaths,     \* useState keyPaths (line 84)
    dimensions,   \* useState dimensions (line 85)
    pending,      \* file reads started (line 71) and not yet settled
    dom,          \* what the last complete run of the render effect drew
    lastAction,   \* the last step: a select of a key, a clear, a reset, a load
                  \* resolved ("loaded") or rejected, or other (history)
    history       \* "none", "first" or "again": the loads completed (history)

vars == <<rawData, idx, nodes, links, keyFlows, propData, data, selectedKey,
          allKeys, keyPaths, dimensions, pending, dom, lastAction, history>>

builderVars == <<rawData, idx, nodes, links, keyFlows>>
chartVars == <<propData, data, selectedKey, allKeys, keyPaths, dimensions,
               pending, dom>>

---------------------------------------------------------------------------
(* Bounds of the model.                                                    *)

MaxRows == 3
MaxPending == 2

---------------------------------------------------------------------------
(* Strings.                                                                *)

\* UTF-16 code unit of the characters the model uses.
Code(c) ==
    CASE c = "-" -> 45
      [] c = "0" -> 48
      [] c = "1" -> 49
      [] c = "2" -> 50
      [] c = "A" -> 65
      [] c = "B" -> 66
      [] c = "C" -> 67
      [] c = "K" -> 75

\* [A-Za-z]
isLetter(c) == (Code(c) >= 65 /\ Code(c) <= 90) \/ (Code(c) >= 97 /\ Code(c) <= 122)

\* \d
isDigit(c) == Code(c) >= 48 /\ Code(c) <= 57

\* a < b in the order of Array.prototype.sort() without comparator:
\* code unit by code unit, a proper prefix first.
RECURSIVE StrLess(_, _)
StrLess(a, b) ==
    IF b = <<>> THEN FALSE
    ELSE IF a = <<>> THEN TRUE
    ELSE IF Code(Head(a)) # Code(Head(b)) THEN Code(Head(a)) < Code(Head(b))
    ELSE StrLess(Tail(a), Tail(b))

\* JavaScript `a || b` on strings.
Or(a, b) == IF a # <<>> THEN a ELSE b

Null == <<>>

Range(s) == {s[i] : i \in 1..Len(s)}

\* Set.prototype.add on an insertion-ordered set.
SetAdd(s, x) == IF x \in Range(s) THEN s ELSE Append(s, x)

\* The names and keys of the model's inputs.
A1 == <<"A", "1">>
A2 == <<"A", "2">>
B1 == <<"B", "1">>
C1 == <<"C", "1">>
A == <<"A">>
AdA == <<"A", "-", "A">>
K1 == <<"K", "1">>
K2 == <<"K", "2">>

\* A row of sheet_to_json with lower-case headers, and one with capitalised
\* headers.
Row(s, d, k) ==
    [source |-> s, Source |-> Null, destination |-> d, Destination |-> Null,
     key |-> k, Key |-> Null]
CapRow(s, d, k) ==
    [source |-> Null, Source |-> s, destination |-> Null, Destination |-> d,
     key |-> Null, Key |-> k]

---------------------------------------------------------------------------
(* processExcelData: the body of the forEach, lines 20-53.                 *)

rowSource(row) == Or(row.source, row.Source)
rowDestination(row) == Or(row.destination, row.Destination)
rowKey(row) == Or(row.key, row.Key)

\* line 25, with a missing key let through
isValidNoKey(source, destination, key) == source # Null /\ destination # Null

\* line 25: if (source && destination && key)
isValid(source, destination, key) ==
    source # Null /\ destination # Null /\ key # Null

\* lines 33, 36: `${source}-${destination}`
linkKeyOf(source, destination) == source \o <<"-">> \o destination

\* lines 45-50 counting rows instead of keys
updateLinkCountingRows(link, key) ==
    [link EXCEPT !.keys = SetAdd(link.keys, key), !.value = link.value + 1]

\* lines 45-50: add the key, raise value to the size of the key set
updateLink(link, key) ==
    LET keys == SetAdd(link.keys, key)
    IN  [link EXCEPT !.keys = keys,
                     !.value = IF Len(keys) > link.value THEN Len(keys) ELSE link.value]

\* lines 38-43
newLink(linkKey, source, destination, key) ==
    [linkKey |-> linkKey, source |-> source, target |-> destination,
     value |-> 1, keys |-> <<key>>]

hasEntry(map, k) == \E i \in 1..Len(map) : map[i].key = k
hasLink(ls, linkKey) == \E i \in 1..Len(ls) : ls[i].linkKey = linkKey

\* lines 30-33 on the keyFlows map
trackFlow(kf, key, linkKey) ==
    LET withKey == IF hasEntry(kf, key) THEN kf
                   ELSE Append(kf, [key |-> key, flows |-> <<>>])
    IN  [i \in 1..Len(withKey) |->
            IF withKey[i].key = key
            THEN [withKey[i] EXCEPT !.flows = SetAdd(@, linkKey)]
            ELSE withKey[i]]

\* lines 36-51 on the links map
createOrUpdateLink(ls, source, destination, key) ==
    LET linkKey == linkKeyOf(source, destination)
    IN  IF ~hasLink(ls, linkKey)
        THEN Append(ls, newLink(linkKey, source, destination, key))
        ELSE [i \in 1..Len(ls) |->
                IF ls[i].linkKey = linkKey THEN updateLink(ls[i], key) ELSE ls[i]]

\* lines 20-52: one row against the three accumulators
processRow(acc, row) ==
    LET source == rowSource(row)
        destination == rowDestination(row)
        key == rowKey(row)
    IN  IF isValid(source, destination, key)
        THEN [nodes |-> SetAdd(SetAdd(acc.nodes, source), destination),
              links |-> createOrUpdateLink(acc.links, source, destination, key),
              keyFlows |-> trackFlow(acc.keyFlows, key, linkKeyOf(source, destination))]
        ELSE acc

\* lines 15-17
emptyAccumulators == [nodes |-> <<>>, links |-> <<>>, keyFlows |-> <<>>]

\* lines 20-53: the whole forEach
RECURSIVE forEachRow(_, _)
forEachRow(acc, rows) ==
    IF rows = <<>> THEN acc ELSE forEachRow(processRow(acc, Head(rows)), Tail(rows))

\* lines 55-63
sankeyData(acc) ==
    [nodes |-> [i \in 1..Len(acc.nodes) |-> [name |-> acc.nodes[i]]],
     links |-> [i \in 1..Len(acc.links) |->
                  [source |-> acc.links[i].source, target |-> acc.links[i].target,
                   value |-> acc.links[i].value, flowKeys |-> acc.links[i].keys]]]

\* lines 14-65: rows to graph
processExcelData(rows) == sankeyData(forEachRow(emptyAccumulators, rows))

NoData == [null |-> TRUE]


---------------------------------------------------------------------------
(* SankeyChart: the key-extraction effect, lines 93-108 and 138-154.       *)

\* Array.prototype.sort() on distinct strings: ascending by code unit
sortStrings(s) ==
    LET pos(i) == Cardinality({j \in 1..Len(s) : StrLess(s[j], s[i])})
                  + Cardinality({j \in 1..(i - 1) : s[j] = s[i]}) + 1
    IN  [p \in 1..Len(s) |-> s[CHOOSE i \in 1..Len(s) : pos(i) = p]]

\* lines 141-146: the keys of all links, in first-seen order
RECURSIVE collectKeys(_, _)
collectKeys(keys, flowKeys) ==
    IF flowKeys = <<>> THEN keys
    ELSE collectKeys(SetAdd(keys, Head(flowKeys)), Tail(flowKeys))

RECURSIVE keysOfLinks(_, _)
keysOfLinks(keys, ls) ==
    IF ls = <<>> THEN keys
    ELSE keysOfLinks(collectKeys(keys, Head(ls).flowKeys), Tail(ls))

\* lines 141-149
extractAllKeys(d) == IF d = NoData THEN <<>> ELSE sortStrings(keysOfLinks(<<>>, d.links))

\* lines 99-102 without the has() test: the list is reset at every link
pushPathResetting(paths, key, link) ==
    IF hasEntry(paths, key)
    THEN [i \in 1..Len(paths) |->
            IF paths[i].key = key THEN [paths[i] EXCEPT !.links = <<link>>] ELSE paths[i]]
    ELSE Append(paths, [key |-> key, links |-> <<link>>])

\* lines 99-102: paths.get(key).push(link), creating the list when absent
pushPath(paths, key, link) ==
    IF hasEntry(paths, key)
    THEN [i \in 1..Len(paths) |->
            IF paths[i].key = key THEN [paths[i] EXCEPT !.links = Append(@, link)]
            ELSE paths[i]]
    ELSE Append(paths, [key |-> key, links |-> <<link>>])

\* lines 98-103: the inner forEach over one link's flowKeys
RECURSIVE pushLink(_, _, _)
pushLink(paths, link, flowKeys) ==
    IF flowKeys = <<>> THEN paths
    ELSE pushLink(pushPath(paths, Head(flowKeys), link), link, Tail(flowKeys))

\* lines 96-105: the outer forEach over the links
RECURSIVE pushLinks(_, _)
pushLinks(paths, ls) ==
    IF ls = <<>> THEN paths
    ELSE pushLinks(pushLink(paths, Head(ls), Head(ls).flowKeys), Tail(ls))

\* lines 93-108
buildKeyPaths(ls) == pushLinks(<<>>, ls)

\* lines 151-153, and nothing when data is null (line 139)
extractKeyPaths(d) == IF d = NoData THEN <<>> ELSE buildKeyPaths(d.links)

\* keyPaths.get(key) || []
pathsGet(paths, key) ==
    IF hasEntry(paths, key)
    THEN paths[CHOOSE i \in 1..Len(paths) : paths[i].key = key].links
    ELSE <<>>


---------------------------------------------------------------------------
(* SankeyChart: the render effect's layout, lines 157-319.                 *)

Max(a, b) == IF a >= b THEN a ELSE b
Min(a, b) == IF a <= b THEN a ELSE b

\* Number of leading characters of `name`, from position i, that satisfy the
\* class: lettersFrom for [A-Za-z]+, digitsFrom for \d+.
RECURSIVE lettersFrom(_, _)
lettersFrom(name, i) ==
    IF i <= Len(name) /\ isLetter(name[i]) THEN 1 + lettersFrom(name, i + 1) ELSE 0

RECURSIVE digitsFrom(_, _)
digitsFrom(name, i) ==
    IF i <= Len(name) /\ isDigit(name[i]) THEN 1 + digitsFrom(name, i + 1) ELSE 0

\* parseInt of a run of decimal digits
RECURSIVE parseInt(_)
parseInt(digits) ==
    IF digits = <<>> THEN 0
    ELSE 10 * parseInt(SubSeq(digits, 1, Len(digits) - 1))
         + (Code(digits[Len(digits)]) - 48)

\* lines 167-168, 176-177, 229-230: match ? match[1] : node.name.charAt(0)
prefixOf(name) ==
    LET n == lettersFrom(name, 1)
    IN  IF n > 0 THEN SubSeq(name, 1, n) ELSE SubSeq(name, 1, 1)

\* line 231: match && match[2] ? parseInt(match[2]) : 0
suffixOf(name) ==
    LET n == lettersFrom(name, 1)
        d == digitsFrom(name, n + 1)
    IN  IF n > 0 /\ d > 0 THEN parseInt(SubSeq(name, n + 1, n + d)) ELSE 0

\* lines 228-244: the prefixes in first-seen order
RECURSIVE prefixesOf(_, _)
prefixesOf(seen, ns) ==
    IF ns = <<>> THEN seen
    ELSE prefixesOf(SetAdd(seen, prefixOf(Head(ns).name)), Tail(ns))

\* lines 226-247: prefixOrder after prefixOrder.sort()
prefixOrderOf(ns) == sortStrings(prefixesOf(<<>>, ns))

\* lines 233-243: the nodes of one prefix, in the order they are passed
nodesOfPrefix(ns, prefix) ==
    SelectSeq([i \in 1..Len(ns) |->
                 [name |-> ns[i].name, prefix |-> prefixOf(ns[i].name),
                  suffix |-> suffixOf(ns[i].name), originalName |-> ns[i].name]],
              LAMBDA n : n.prefix = prefix)

\* line 251: prefixNodes.sort((a, b) => a.suffix - b.suffix), a stable sort
sortBySuffix(s) ==
    LET pos(i) == Cardinality({j \in 1..Len(s) : s[j].suffix < s[i].suffix})
                  + Cardinality({j \in 1..(i - 1) : s[j].suffix = s[i].suffix}) + 1
    IN  [p \in 1..Len(s) |-> s[CHOOSE i \in 1..Len(s) : pos(i) = p]]

\* lines 165-171
columnCountOf(d) == Len(prefixesOf(<<>>, d.nodes))

\* lines 174-183: Math.max over the column sizes
maxNodesInColumnOf(d) ==
    LET ps == prefixesOf(<<>>, d.nodes)
        size(p) == Cardinality({i \in 1..Len(d.nodes) : prefixOf(d.nodes[i].name) = p})
    IN  CHOOSE m \in {size(p) : p \in Range(ps)} :
            \A p \in Range(ps) : size(p) <= m

LegendWidth == 220

\* lines 186-205.  The margins are max(60, 0.04 w), max(30, 0.02 w),
\* max(60, 0.08 h), max(30, 0.05 h); the container sizes of the model make
\* every product either whole or smaller than the constant it is compared to.
\* columnCount * max(200, a / columnCount) is max(200 columnCount, a).
layoutWidth(dims, columnCount) ==
    LET containerWidth == dims.width
        left == Max(60, (containerWidth * 4) \div 100)
        right == Max(30, (containerWidth * 2) \div 100)
        availableWidth == containerWidth - left - right - LegendWidth
    IN  Min(availableWidth, Max(200 * columnCount, availableWidth))

layoutHeight(dims, maxNodesInColumn) ==
    LET containerHeight == Max(600, dims.height)
        top == Max(60, (containerHeight * 8) \div 100)
        bottom == Max(30, (containerHeight * 5) \div 100)
        availableHeight == containerHeight - top - bottom
    IN  Min(availableHeight, Max(60 * maxNodesInColumn, availableHeight))

\* Rectangles are kept as whole numbers: x0 and x1 in units of
\* 1/(100 columnCount) pixel, y0 and y1 in units of 1/(24 maxNodesInColumn)
\* pixel.  In these units the quantities of lines 255-258 are:
\*   columnWidth = 100 width, nodeWidth = clamp(2 width, 600 n, 1200 n),
\*   nodeHeight = clamp(16 height, 720 m, 1440 m),
\*   nodePadding = max(240 m, nodeHeight / 4).
columnWidthU(width) == 100 * width
nodeWidthU(width, n) == Max(600 * n, Min(1200 * n, 2 * width))
nodeHeightU(height, m) == Max(720 * m, Min(1440 * m, 16 * height))
nodePaddingU(height, m) == Max(240 * m, nodeHeightU(height, m) \div 4)

\* lines 263-284: the rectangles of one column
positionColumn(prefixNodes, columnIndex, n, width, height, m) ==
    LET x == columnIndex * columnWidthU(width) + (columnWidthU(width) \div 2)
             - (nodeWidthU(width, n) \div 2)
        totalNodesHeight == Len(prefixNodes) * nodeHeightU(height, m)
                            + (Len(prefixNodes) - 1) * nodePaddingU(height, m)
        startY == (24 * m * height - totalNodesHeight) \div 2
    IN  [k \in 1..Len(prefixNodes) |->
            LET y == startY + (k - 1) * (nodeHeightU(height, m) + nodePaddingU(height, m))
            IN  [name |-> prefixNodes[k].originalName,
                 prefix |-> prefixNodes[k].prefix,
                 suffix |-> prefixNodes[k].suffix,
                 x0 |-> x, x1 |-> x + nodeWidthU(width, n),
                 y0 |-> y, y1 |-> y + nodeHeightU(height, m)]]

RECURSIVE positionColumns(_, _, _, _, _, _)
positionColumns(ns, prefixOrder, columnIndex, width, height, m) ==
    IF columnIndex >= Len(prefixOrder) THEN <<>>
    ELSE positionColumn(sortBySuffix(nodesOfPrefix(ns, prefixOrder[columnIndex + 1])),
                        columnIndex, Len(prefixOrder), width, height, m)
         \o positionColumns(ns, prefixOrder, columnIndex + 1, width, height, m)

\* lines 223-287, with width, height and maxNodesInColumn of the enclosing
\* effect as parameters
customNodePositioning(ns, width, height, maxNodesInColumn) ==
    positionColumns(ns, prefixOrderOf(ns), 0, width, height, maxNodesInColumn)


---------------------------------------------------------------------------
(* SankeyChart: the render effect, lines 157-490.                          *)

\* lines 290-308: the circular-layout solver is an external library.  Of
\* its result the effect reads the node list, whose order is the solver's
\* (order), and the links with their ends resolved to nodes.
standardLayoutNodes(d, order) == [i \in 1..Len(d.nodes) |-> d.nodes[order[i]]]

\* the orders the solver may return the nodes of d in
SolverOrders(d) == IF d = NoData THEN {<<>>} ELSE Permutations(1..Len(d.nodes))

\* nodeMap.get(name), lines 314-318
nodeNamed(positioned, name) ==
    positioned[CHOOSE i \in 1..Len(positioned) : positioned[i].name = name]

\* lines 315-319: the links with their ends replaced by positioned nodes
layoutLinks(d, positioned) ==
    [i \in 1..Len(d.links) |->
        [source |-> nodeNamed(positioned, d.links[i].source),
         target |-> nodeNamed(positioned, d.links[i].target),
         value |-> d.links[i].value, flowKeys |-> d.links[i].flowKeys]]

NoDom ==
    [rendered |-> FALSE, data |-> NoData, dimensions |-> [width |-> 0, height |-> 0],
     selectedKey |-> Null, allKeys |-> <<>>, keyPaths |-> <<>>,
     nodes |-> <<>>, links |-> <<>>]

\* lines 157-490: one run of the render effect.  With no data or no width
\* it returns at line 158 and the svg keeps what the last run drew, with
\* the handlers and the values they closed over.
renderEffect(old, d, sel, keys, paths, dims, order) ==
    IF d = NoData \/ dims.width = 0 THEN old
    ELSE LET m == IF d.nodes = <<>> THEN 0 ELSE maxNodesInColumnOf(d)
             width == layoutWidth(dims, columnCountOf(d))
             height == layoutHeight(dims, m)
             positioned == customNodePositioning(standardLayoutNodes(d, order),
                                                 width, height, m)
         IN  [rendered |-> TRUE, data |-> d, dimensions |-> dims,
              selectedKey |-> sel, allKeys |-> keys, keyPaths |-> paths,
              nodes |-> positioned, links |-> layoutLinks(d, positioned)]

\* lines 326-334 adding only the source of each matching link
getNodesForKeySourcesOnly(r, key) ==
    LET linksForKey == pathsGet(r.keyPaths, key)
        matching(link) == {i \in 1..Len(r.links) :
                              r.links[i].source.name = link.source
                              /\ r.links[i].target.name = link.target}
    IN  UNION {IF matching(linksForKey[j]) = {} THEN {}
               ELSE LET l == r.links[CHOOSE i \in matching(linksForKey[j]) :
                                        \A i2 \in matching(linksForKey[j]) : i <= i2]
                    IN  {l.source}
               : j \in 1..Len(linksForKey)}

\* lines 322-337, in the closure of the render r
getNodesForKey(r, key) ==
    LET linksForKey == pathsGet(r.keyPaths, key)
        matching(link) == {i \in 1..Len(r.links) :
                              r.links[i].source.name = link.source
                              /\ r.links[i].target.name = link.target}
    IN  UNION {IF matching(linksForKey[j]) = {} THEN {}
               ELSE LET l == r.links[CHOOSE i \in matching(linksForKey[j]) :
                                        \A i2 \in matching(linksForKey[j]) : i <= i2]
                    IN  {l.source, l.target}
               : j \in 1..Len(linksForKey)}

\* lines 387, 469: selectedKey === key ? null : key, with the selectedKey
\* the handler closed over
toggle(closedOver, key) == IF closedOver = key THEN Null ELSE key

---------------------------------------------------------------------------
(* Inputs.                                                                 *)

\* The rows a sheet may hold: the rows of the example of the documentation,
\* two rows whose link keys coincide, a row with capitalised headers and a
\* row with each of the three fields missing.
Rows ==
    {Row(A1, B1, K1), Row(A1, B1, K2), Row(A1, C1, K1),
     Row(A, AdA, K1), Row(AdA, A, K2), CapRow(A2, B1, K2),
     Row(A1, Null, K1), Row(Null, B1, K2), Row(A1, B1, Null)}

RECURSIVE SeqsUpTo(_, _)
SeqsUpTo(S, n) ==
    IF n = 0 THEN {<<>>}
    ELSE LET shorter == SeqsUpTo(S, n - 1)
         IN  shorter \cup {Append(s, x) : s \in shorter, x \in S}

\* The sheets uploaded to the chart.
Files ==
    {<<Row(A1, B1, K1), Row(A1, B1, K2), Row(A1, C1, K1)>>,
     <<Row(A1, B1, K2), Row(A1, C1, K1), Row(A1, B1, K1)>>,
     <<Row(A2, B1, K1), Row(A1, C1, K1), Row(A1, Null, K2)>>,
     <<Row(A, AdA, K1), Row(AdA, A, K2)>>,
     <<Row(A1, B1, Null)>>}

PropFiles == {<<Row(A1, B1, K1), Row(A1, B1, K2), Row(A1, C1, K1)>>}

\* what getBoundingClientRect measures for the container
ContainerWidths == {300, 1000}
ContainerHeights == {600}


---------------------------------------------------------------------------
(* The component: state after construction, and one action per handler.    *)

\* A commit of new state followed by the effects it triggers, run until
\* nothing changes: the key-extraction effect has set allKeys and keyPaths
\* (keys, paths) and the render effect has run last, on the final state.
commit(d, sel, keys, paths, dims) ==
    /\ data' = d
    /\ selectedKey' = sel
    /\ allKeys' = keys
    /\ keyPaths' = paths
    /\ dimensions' = dims
    /\ \E order \in SolverOrders(d) :
          dom' = renderEffect(dom, d, sel, keys, paths, dims, order)

\* lines 81-85, and the key-extraction effect on the initial data
InitChart ==
    /\ propData \in {NoData} \cup {processExcelData(f) : f \in PropFiles}
    /\ data = propData
    /\ selectedKey = Null
    /\ allKeys = extractAllKeys(data)
    /\ keyPaths = extractKeyPaths(data)
    /\ dimensions = [width |-> 0, height |-> 0]
    /\ pending = 0
    /\ dom = NoDom
    /\ lastAction = [op |-> "other", key |-> Null]
    /\ history = "none"

Init ==
    /\ rawData = <<>>
    /\ idx = 1
    /\ nodes = <<>>
    /\ links = <<>>
    /\ keyFlows = <<>>
    /\ InitChart

\* lines 125-133: updateDimensions, on mount and on every window resize
Resize ==
    \E w \in ContainerWidths, h \in ContainerHeights :
        /\ commit(data, selectedKey, allKeys, keyPaths, [width |-> w, height |-> h])
        /\ lastAction' = [op |-> "other", key |-> Null]
        /\ UNCHANGED history
        /\ UNCHANGED <<builderVars, propData, pending>>

\* lines 111-115 and 71: a file is chosen in the input of lines 528-551,
\* which is there while data is null, and the read starts
handleFileUpload ==
    /\ data = NoData
    /\ pending < MaxPending
    /\ pending' = pending + 1
    /\ lastAction' = [op |-> "other", key |-> Null]
    /\ UNCHANGED history
    /\ UNCHANGED <<builderVars, propData, data, selectedKey, allKeys, keyPaths,
                   dimensions, dom>>

\* lines 6-65 and 116 with accumulators that outlive the call
readerOnloadMerging(rows) ==
    /\ pending > 0
    /\ pending' = pending - 1
    /\ LET acc == forEachRow([nodes |-> nodes, links |-> links, keyFlows |-> keyFlows],
                             rows)
           d == sankeyData(acc)
       IN  /\ rawData' = rows
           /\ idx' = Len(rows) + 1
           /\ nodes' = acc.nodes
           /\ links' = acc.links
           /\ keyFlows' = acc.keyFlows
           /\ commit(d, selectedKey, extractAllKeys(d), extractKeyPaths(d), dimensions)
    /\ lastAction' = [op |-> "loaded", key |-> Null]
    /\ history' = IF history = "none" THEN "first" ELSE "again"
    /\ UNCHANGED propData

\* lines 6-65 and 116: reader.onload builds the graph of the sheet's rows,
\* the promise resolves and handleFileUpload sets data
readerOnload(rows) ==
    /\ pending > 0
    /\ pending' = pending - 1
    /\ LET acc == forEachRow(emptyAccumulators, rows)
           d == sankeyData(acc)
       IN  /\ rawData' = rows
           /\ idx' = Len(rows) + 1
           /\ nodes' = acc.nodes
           /\ links' = acc.links
           /\ keyFlows' = acc.keyFlows
           /\ commit(d, selectedKey, extractAllKeys(d), extractKeyPaths(d), dimensions)
    /\ lastAction' = [op |-> "loaded", key |-> Null]
    /\ history' = IF history = "none" THEN "first" ELSE "again"
    /\ UNCHANGED propData

UploadResolved == \E rows \in Files : readerOnload(rows)

\* lines 66-70 with the failure resolved as a graph without nodes and links
UploadRejectedAsEmpty ==
    /\ pending > 0
    /\ pending' = pending - 1
    /\ LET d == sankeyData(emptyAccumulators)
       IN  commit(d, selectedKey, extractAllKeys(d), extractKeyPaths(d), dimensions)
    /\ lastAction' = [op |-> "rejected", key |-> Null]
    /\ UNCHANGED history
    /\ UNCHANGED <<builderVars, propData>>

\* lines 66-70 and 117-120: the read or the parse fails, the promise is
\* rejected and handleFileUpload alerts
UploadRejected ==
    /\ pending > 0
    /\ pending' = pending - 1
    /\ lastAction' = [op |-> "rejected", key |-> Null]
    /\ UNCHANGED history
    /\ UNCHANGED <<builderVars, propData, data, selectedKey, allKeys, keyPaths,
                   dimensions, dom>>

\* lines 464-470: a click on a row of the legend the last render drew
LegendClick ==
    /\ dom.rendered
    /\ \E i \in 1..Len(dom.allKeys) :
          /\ commit(data, toggle(dom.selectedKey, dom.allKeys[i]), allKeys, keyPaths,
                    dimensions)
          /\ lastAction' = [op |-> "select", key |-> dom.allKeys[i]]
          /\ UNCHANGED history
    /\ UNCHANGED <<builderVars, propData, pending>>

\* lines 384-389: a click on a link the last render drew
LinkClick ==
    /\ dom.rendered
    /\ \E i \in 1..Len(dom.links) :
          /\ Len(dom.links[i].flowKeys) > 0
          /\ commit(data, toggle(dom.selectedKey, dom.links[i].flowKeys[1]), allKeys,
                    keyPaths, dimensions)
          /\ lastAction' = [op |-> "select", key |-> dom.links[i].flowKeys[1]]
          /\ UNCHANGED history
    /\ UNCHANGED <<builderVars, propData, pending>>

\* lines 577-579: the Clear Selection button, there while a key is selected
ClearSelection ==
    /\ selectedKey # Null
    /\ commit(data, Null, allKeys, keyPaths, dimensions)
    /\ lastAction' = [op |-> "clear", key |-> Null]
    /\ UNCHANGED history
    /\ UNCHANGED <<builderVars, propData, pending>>

\* lines 553-560: the Load New Data button
LoadNewData ==
    /\ data # NoData
    /\ propData = NoData
    /\ commit(NoData, Null, <<>>, <<>>, dimensions)
    /\ lastAction' = [op |-> "reset", key |-> Null]
    /\ UNCHANGED history
    /\ UNCHANGED <<builderVars, propData, pending>>

Next ==
    \/ Resize
    \/ handleFileUpload
    \/ UploadResolved
    \/ UploadRejected
    \/ LegendClick
    \/ LinkClick
    \/ ClearSelection
    \/ LoadNewData

Spec == Init /\ [][Next]_vars

---------------------------------------------------------------------------
(* The load of one sheet, row by row: the forEach of line 20 one row per   *)
(* step, then the resolve and setData, in a chart whose container has not  *)
(* been measured yet.                                                      *)

InitBuild ==
    /\ rawData \in SeqsUpTo(Rows, MaxRows)
    /\ idx = 1
    /\ nodes = <<>>
    /\ links = <<>>
    /\ keyFlows = <<>>
    /\ InitChart
    /\ propData = NoData

\* lines 20-52: the callback of the forEach on the next row
ForEachRow ==
    /\ idx <= Len(rawData)
    /\ LET acc == processRow([nodes |-> nodes, links |-> links, keyFlows |-> keyFlows],
                             rawData[idx])
       IN  /\ nodes' = acc.nodes
           /\ links' = acc.links
           /\ keyFlows' = acc.keyFlows
    /\ idx' = idx + 1
    /\ lastAction' = [op |-> "other", key |-> Null]
    /\ UNCHANGED history
    /\ UNCHANGED <<rawData, chartVars>>

\* lines 55-65 and 116: the graph is resolved and set as data
Resolve ==
    /\ idx = Len(rawData) + 1
    /\ data = NoData
    /\ LET d == sankeyData([nodes |-> nodes, links |-> links, keyFlows |-> keyFlows])
       IN  commit(d, selectedKey, extractAllKeys(d), extractKeyPaths(d), dimensions)
    /\ lastAction' = [op |-> "loaded", key |-> Null]
    /\ history' = IF history = "none" THEN "first" ELSE "again"
    /\ UNCHANGED <<builderVars, propData, pending>>

NextBuild == ForEachRow \/ Resolve

SpecBuild == InitBuild /\ [][NextBuild]_vars


---------------------------------------------------------------------------
(* Properties of the graph builder, checked under SpecBuild.               *)

\* the rows the forEach has passed so far
rowsDone == 1..(idx - 1)

\* a row with its three fields present and non-empty under either spelling
complete(row) ==
    /\ (row.source # Null \/ row.Source # Null)
    /\ (row.destination # Null \/ row.Destination # Null)
    /\ (row.key # Null \/ row.Key # Null)

srcOf(row) == IF row.source # Null THEN row.source ELSE row.Source
dstOf(row) == IF row.destination # Null THEN row.destination ELSE row.Destination
keyOf(row) == IF row.key # Null THEN row.key ELSE row.Key

\* C1: after every prefix of the rows, the value of every link is the
\* number of distinct keys seen for it, in the accumulator and in the
\* resolved graph; a repeated row never raises it.
C1_ValueIsKeyCount ==
    /\ \A i \in 1..Len(links) :
          /\ links[i].value = Cardinality(Range(links[i].keys))
          /\ Len(links[i].keys) = Cardinality(Range(links[i].keys))
    /\ data # NoData =>
          \A i \in 1..Len(data.links) :
              /\ data.links[i].value = Cardinality(Range(data.links[i].flowKeys))
              /\ data.links[i].value = Len(data.links[i].flowKeys)

\* a row has been passed twice and its link still counts one key
C1_Witness ==
    \E i \in rowsDone, j \in rowsDone :
        /\ i < j
        /\ complete(rawData[i])
        /\ rawData[i] = rawData[j]
        /\ \E l \in 1..Len(links) :
              /\ links[l].source = srcOf(rawData[i])
              /\ links[l].target = dstOf(rawData[i])
              /\ links[l].value = 1

\* the pairs (source, destination) of the complete rows passed so far
pairsDone == {<<srcOf(rawData[i]), dstOf(rawData[i])>> : i \in {j \in rowsDone : complete(rawData[j])}}

keysOfPair(pair) ==
    {keyOf(rawData[i]) : i \in {j \in rowsDone : /\ complete(rawData[j])
                                                  /\ srcOf(rawData[j]) = pair[1]
                                                  /\ dstOf(rawData[j]) = pair[2]}}

\* C2: a link is the ordered pair (source, target): after every prefix of
\* the rows there is exactly one link for every pair of a complete row, no
\* link for any other pair, and the keys of the link of a pair are exactly
\* the keys of the complete rows of that pair.
C2_LinkIsOrderedPair ==
    /\ \A pair \in pairsDone :
          \E l \in 1..Len(links) :
              /\ links[l].source = pair[1]
              /\ links[l].target = pair[2]
              /\ Range(links[l].keys) = keysOfPair(pair)
              /\ \A l2 \in 1..Len(links) :
                    (links[l2].source = pair[1] /\ links[l2].target = pair[2]) => l2 = l
    /\ \A l \in 1..Len(links) : <<links[l].source, links[l].target>> \in pairsDone

\* the row at which the key is first recorded on the link (0 when never)
firstRow(key, link) ==
    LET at == {i \in 1..Len(rawData) :
                  /\ complete(rawData[i])
                  /\ keyOf(rawData[i]) = key
                  /\ linkKeyOf(srcOf(rawData[i]), dstOf(rawData[i]))
                       = linkKeyOf(link.source, link.target)}
    IN  IF at = {} THEN 0 ELSE CHOOSE i \in at : \A j \in at : i <= j

keysOfData == UNION {Range(data.links[i].flowKeys) : i \in 1..Len(data.links)}

\* the links of the graph that carry the key, each once
carriesExactly(key, path) ==
    /\ Range(path) = {data.links[i] : i \in {j \in 1..Len(data.links) :
                                               key \in Range(data.links[j].flowKeys)}}
    /\ Len(path) = Cardinality(Range(path))

\* C5 as stated: the entry of every key holds exactly the links that carry
\* the key, each once, in the order in which the key was first recorded on
\* them by the pass over the rows.
C5_PathsInAssociationOrder ==
    data # NoData =>
        /\ {keyPaths[i].key : i \in 1..Len(keyPaths)} = keysOfData
        /\ \A key \in keysOfData :
              LET path == pathsGet(keyPaths, key)
              IN  /\ carriesExactly(key, path)
                  /\ \A a \in 1..Len(path), b \in 1..Len(path) :
                        a < b => firstRow(key, path[a]) < firstRow(key, path[b])

\* C5 as amended: the entry of every key holds exactly the links that carry
\* the key, each once, in the order of the graph's list of links, which is
\* the order in which the links were created by the pass over the rows.
C5_PathsInLinkOrder ==
    data # NoData =>
        /\ {keyPaths[i].key : i \in 1..Len(keyPaths)} = keysOfData
        /\ \A key \in keysOfData :
              LET path == pathsGet(keyPaths, key)
              IN  /\ carriesExactly(key, path)
                  /\ path = SelectSeq(data.links, LAMBDA l : key \in Range(l.flowKeys))

\* a key is carried by two links, and was recorded on the second of its
\* entry before it was recorded on the first
C5_Witness ==
    /\ data # NoData
    /\ \E key \in keysOfData :
          LET path == pathsGet(keyPaths, key)
          IN  /\ Len(path) = 2
              /\ firstRow(key, path[2]) < firstRow(key, path[1])

\* C6: a row with a field missing or empty changes none of the node set,
\* the links and the key grouping, and a sheet with no complete row resolves
\* to a graph with no node and no link.
C6_IncompleteRowSkipped ==
    /\ [][(idx' = idx + 1 /\ ~complete(rawData[idx]))
             => (nodes' = nodes /\ links' = links /\ keyFlows' = keyFlows)]_vars
    /\ []((data # NoData /\ \A i \in 1..Len(rawData) : ~complete(rawData[i]))
             => (data.nodes = <<>> /\ data.links = <<>>))

\* an incomplete row has been passed after a complete one
C6_Witness ==
    /\ nodes # <<>>
    /\ idx > 2
    /\ ~complete(rawData[idx - 1])
    /\ complete(rawData[1])

namesOfRows(rows) ==
    UNION {{srcOf(rows[i]), dstOf(rows[i])} : i \in {j \in 1..Len(rows) : complete(rows[j])}}

\* a graph as sets: its node names, and its links with their keys as a set
graphSets(d) ==
    [nodes |-> {d.nodes[i].name : i \in 1..Len(d.nodes)},
     links |-> {[source |-> d.links[i].source, target |-> d.links[i].target,
                 value |-> d.links[i].value, flowKeys |-> Range(d.links[i].flowKeys)]
                : i \in 1..Len(d.links)}]

\* C7: the nodes of the resolved graph are exactly the sources and the
\* destinations of the complete rows, and the rows in any other order give
\* the same set of nodes and the same set of links.
C7_RowOrderIrrelevant ==
    data # NoData =>
        /\ graphSets(data).nodes = namesOfRows(rawData)
        /\ \A order \in Permutations(1..Len(rawData)) :
              graphSets(processExcelData([i \in 1..Len(rawData) |-> rawData[order[i]]]))
                = graphSets(data)


---------------------------------------------------------------------------
(* Properties of the chart, checked under Spec.                            *)

\* C3: the selection is no key or one key, a click that selects key k
\* leaves k selected unless k was the selected key, and then leaves no key
\* selected; Clear Selection leaves no key selected.
C3_SelectionTransitions ==
    [][/\ lastAction'.op = "select" =>
             selectedKey' = (IF selectedKey = lastAction'.key THEN Null
                             ELSE lastAction'.key)
       /\ lastAction'.op = "clear" => selectedKey' = Null]_vars

\* the names of the ends of the links of the key's entry in the index
endpointsOfPath(r, key) ==
    UNION {{pathsGet(r.keyPaths, key)[j].source, pathsGet(r.keyPaths, key)[j].target}
           : j \in 1..Len(pathsGet(r.keyPaths, key))}

keysOfRender(r) ==
    {r.keyPaths[i].key : i \in 1..Len(r.keyPaths)}
    \cup UNION {Range(r.data.links[i].flowKeys) : i \in 1..Len(r.data.links)}

\* C4: in every render, the nodes of the path of every key are the drawn
\* nodes whose names are the ends of the links of the key's entry in the
\* index: none missing, none more.
C4_NodesInPath ==
    dom.rendered =>
        \A key \in keysOfRender(dom) :
            /\ getNodesForKey(dom, key) \subseteq Range(dom.nodes)
            /\ {n.name : n \in getNodesForKey(dom, key)} = endpointsOfPath(dom, key)

\* a render in which the selected key is carried by two links that share no
\* end
C4_Witness ==
    /\ dom.rendered
    /\ selectedKey # Null
    /\ LET path == pathsGet(dom.keyPaths, selectedKey)
       IN  /\ Len(path) = 2
           /\ {path[1].source, path[1].target} \cap {path[2].source, path[2].target} = {}
           /\ Cardinality(getNodesForKey(dom, selectedKey)) = 4

\* C8: in every render two nodes have the same x0 exactly when their names
\* have the same prefix, a node whose prefix sorts before another's is to
\* its left, and of two nodes of one column the one with the greater suffix
\* is lower.
C8_ColumnsByPrefix ==
    dom.rendered =>
        \A m \in Range(dom.nodes), n \in Range(dom.nodes) :
            /\ (m.x0 = n.x0) <=> (prefixOf(m.name) = prefixOf(n.name))
            /\ StrLess(prefixOf(m.name), prefixOf(n.name)) => m.x0 < n.x0
            /\ (prefixOf(m.name) = prefixOf(n.name) /\ suffixOf(m.name) < suffixOf(n.name))
                  => m.y0 < n.y0

\* C9: the rectangles of a render are the same for every order in which the
\* solver may return the nodes of the same graph, at the same dimensions.
C9_LayoutIgnoresSolverOrder ==
    dom.rendered =>
        \A order \in SolverOrders(dom.data) :
            Range(renderEffect(dom, dom.data, dom.selectedKey, dom.allKeys, dom.keyPaths,
                               dom.dimensions, order).nodes)
              = Range(dom.nodes)

namesOfData == {data.nodes[i].name : i \in 1..Len(data.nodes)}

\* C10: whatever was loaded and reset before, the graph is the graph of the
\* rows of the last completed load alone, its nodes and keys are nodes and
\* keys of those rows, the index and the key list hold the links and keys of
\* that graph alone, and they are empty when there is no graph.
C10_NoStateCarriedOver ==
    /\ propData # NoData => data = propData
    /\ (propData = NoData /\ data # NoData) =>
          /\ data = processExcelData(rawData)
          /\ namesOfData = namesOfRows(rawData)
          /\ keysOfData \subseteq {keyOf(rawData[i]) : i \in 1..Len(rawData)}
    /\ data # NoData =>
          /\ Range(allKeys) = keysOfData
          /\ {keyPaths[i].key : i \in 1..Len(keyPaths)} = keysOfData
          /\ \A i \in 1..Len(keyPaths) : Range(keyPaths[i].links) \subseteq Range(data.links)
    /\ data = NoData => (allKeys = <<>> /\ keyPaths = <<>>)

\* a graph loaded after an earlier load and a reset
C10_Witness ==
    /\ history = "again"
    /\ data # NoData
    /\ data.links # <<>>
    /\ lastAction.op = "loaded"
    /\ pending = 0

\* C11: a load that fails is rejected and changes none of the graph, the key
\* list, the index and the selection, while a load of a readable sheet with
\* no complete row is resolved and leaves a graph, not null, whose lists of
\* nodes and links are empty.
C11_FailureIsNotEmptyGraph ==
    [][/\ lastAction'.op = "rejected" =>
             /\ data' = data
             /\ allKeys' = allKeys
             /\ keyPaths' = keyPaths
             /\ selectedKey' = selectedKey
       /\ (lastAction'.op = "loaded"
           /\ \A i \in 1..Len(rawData') : ~complete(rawData'[i])) =>
             /\ data' # NoData
             /\ data'.nodes = <<>>
             /\ data'.links = <<>>]_vars

\* a load has failed while a graph is shown and one of its keys is selected
C11_Witness ==
    /\ lastAction.op = "rejected"
    /\ data # NoData
    /\ data.links # <<>>
    /\ selectedKey # Null

\* C12: in every state the selected key is no key or a key of a link of the
\* graph that is loaded.
C12_SelectionWithinGraph ==
    selectedKey # Null => (data # NoData /\ selectedKey \in keysOfData)

\* C12 with a graph loaded: the selected key is a key of one of its links
C12_SelectionWithinLoadedGraph ==
    (selectedKey # Null /\ data # NoData) => selectedKey \in keysOfData

=============================================================================
